---- MODULE Spec2Model ----
(***************************************************************************)
(* The XCB native window of AzFramework (XcbNativeWindow.cpp) as a state   *)
(* machine: the window object's fields, the requests it sends to the X     *)
(* server, the notifications it publishes, and the events it handles.      *)
(*                                                                         *)
(* Every method is an operator from a context (the object's fields, the    *)
(* connection's id generator and the effects issued so far by the running  *)
(* operation) to a context, so that a method calling another is operator   *)
(* composition, in the order of the statements of the source.              *)
(***************************************************************************)
EXTENDS Integers, Sequences, FiniteSets, TLC

VARIABLES
    self,       \* the XcbNativeWindow object's fields
    xid,        \* the connection's next resource id (xcb_generate_id)
    out,        \* requests, notifications and broadcasts of the last operation
    phase,      \* "constructed" | "live" | "destroyed"
    pc,         \* "idle" | "splashWait" (blocked in DrawSplash's receive loop)
    splash,     \* DrawSplash's locals while it waits for the exposure event
    lastOp,     \* the last operation called and its inputs
    pre,        \* the fields the last operation found: activated, width, height
    hist        \* counters over the object's lifetime

vars == <<self, xid, out, phase, pc, splash, lastOp, pre, hist>>

----------------------------------------------------------------------------
(* Bounds of the model. *)

MaxDim == 1             \* widths and heights range over 0..MaxDim
MaxActivations == 2     \* Activate calls that find the window deactivated
MaxStates == 2          \* length of a _NET_WM_STATE reply
MaxDiscard == 1         \* events discarded by one splash wait loop
MaxGetAtomCalls == 2    \* direct GetAtom calls (SpecGetAtom)
MaxInits == 2           \* InitWindow calls (SpecReinit)

----------------------------------------------------------------------------
(* Constants of the program and of the X protocol it speaks. *)

XCB_NONE == 0
XCB_ATOM_ATOM == 4
XCB_ATOM_CARDINAL == 6
XCB_ATOM_STRING == 31
XCB_ATOM_WM_CLASS == 67
XCB_EXPOSE == 12
XCB_CONFIGURE_NOTIFY == 22
XCB_CLIENT_MESSAGE == 33
s_XcbResponseTypeMask == 127
SentEventBit == 128
s_XcbFormatDataSize == 32
s_DefaultXcbWindowBorderWidth == 4
NET_WM_STATE_REMOVE == 0
NET_WM_STATE_ADD == 1
NET_WM_STATE_TOGGLE == 2
RootWindow == 1
FirstXid == 2
LastPredefinedAtom == 68

(* The atom names InitializeAtoms resolves, in the order it resolves them. *)
AtomNames ==
    << "_NET_ACTIVE_WINDOW", "_NET_WM_BYPASS_COMPOSITOR", "WM_PROTOCOLS",
       "WM_DELETE_WINDOW", "_NET_WM_PING", "_NET_WM_STATE",
       "_NET_WM_STATE_FULLSCREEN", "_NET_WM_STATE_MAXIMIZED_VERT",
       "_NET_WM_STATE_MAXIMIZED_HORZ", "_NET_MOVERESIZE_WINDOW",
       "_NET_REQUEST_FRAME_EXTENTS", "_NET_FRAME_EXTENTS", "_NET_WM_PID" >>

AtomNameSet == { AtomNames[i] : i \in 1..Len(AtomNames) }

AtomIndexOf ==
    [ n \in AtomNameSet |-> CHOOSE i \in 1..Len(AtomNames) : AtomNames[i] = n ]

AtomIndex(name) == AtomIndexOf[name]

(* The server's atom table: one token per name, above the predefined atoms. *)
ServerAtom(name) == LastPredefinedAtom + AtomIndexOf[name]

Dims == 0..MaxDim
BOOL01(b) == IF b THEN 1 ELSE 0

----------------------------------------------------------------------------
(* Effects: what an operation sends to the server or publishes. *)

Eff(k, a) == [k |-> k, a |-> a]

Emit(c, e) == [c EXCEPT !.out = Append(@, e)]

EmitAll(c, es) == [c EXCEPT !.out = @ \o es]

Kinds(seq) == [i \in 1..Len(seq) |-> seq[i].k]

IsNotification(e) ==
    e.k \in {"OnWindowClosed", "OnWindowResized", "OnResolutionChanged", "ExitMainLoop"}

Notifications(seq) == SelectSeq(seq, IsNotification)

Count(seq, k) == Len(SelectSeq(seq, LAMBDA e : e.k = k))

(* The context an operation starts in. *)
Ctx == [self |-> self, xid |-> xid, out |-> <<>>]

(* xcb_generate_id: the id handed out, and the context after it. *)
GenerateId(c) == [c EXCEPT !.xid = @ + 1]

----------------------------------------------------------------------------
(* Construction. *)

NoAtoms == [n \in AtomNameSet |-> XCB_NONE]

(* The members' in-class initialisers. *)
DefaultMembers ==
    [ m_xcbWindow |-> XCB_NONE, m_xcbGraphicContext |-> XCB_NONE,
      m_posX |-> 0, m_posY |-> 0, m_width |-> 0, m_height |-> 0,
      m_activated |-> FALSE, m_fullscreenState |-> FALSE,
      m_horizontalyMaximized |-> FALSE, m_verticallyMaximized |-> FALSE,
      m_enableCustomizedResolution |-> FALSE,
      busConnected |-> FALSE, atoms |-> NoAtoms ]

NoSplash == [pixmap |-> XCB_NONE, width |-> 0, height |-> 0, discarded |-> 0, last |-> <<>>]

NoOp == [op |-> "constructor", args |-> <<>>]

NoPre == [activated |-> FALSE, resized |-> FALSE]

NoHist ==
    [ inits |-> 0, freshActivations |-> 0, splashRuns |-> 0, closed |-> 0,
      windowIds |-> {},
      interned |-> [n \in AtomNameSet |-> 0], tokens |-> [n \in AtomNameSet |-> {}],
      getAtomCalls |-> [n \in AtomNameSet |-> 0] ]

Init ==
    /\ self = DefaultMembers
    /\ xid = FirstXid
    /\ out = <<>>
    /\ phase = "constructed"
    /\ pc = "idle"
    /\ splash = NoSplash
    /\ lastOp = NoOp
    /\ pre = NoPre
    /\ hist = NoHist

----------------------------------------------------------------------------
(* Atoms. *)

Int16(v) == ((v + 32768) % 65536) - 32768

(* Faulty variant: the request is sent again when no reply came back. *)
GetAtomRetrying(c, atomName, replied) ==
    LET request == Eff("xcb_intern_atom", <<AtomIndex(atomName)>>)
    IN  [ ctx  |-> IF replied THEN Emit(c, request) ELSE EmitAll(c, <<request, request>>),
          atom |-> IF replied THEN ServerAtom(atomName) ELSE XCB_NONE ]

(* GetAtom: one intern-atom round trip; XCB_NONE when no reply comes back. *)
GetAtom(c, atomName, replied) ==
    [ ctx  |-> Emit(c, Eff("xcb_intern_atom", <<AtomIndex(atomName)>>)),
      atom |-> IF replied THEN ServerAtom(atomName) ELSE XCB_NONE ]

(* The assignment  <field> = GetAtom("<name>")  for names i..j, in order. *)
RECURSIVE ResolveRange(_, _, _, _)
ResolveRange(c, i, j, lost) ==
    IF i > j THEN c
    ELSE LET name == AtomNames[i]
             r == GetAtom(c, name, name \notin lost)
         IN  ResolveRange([r.ctx EXCEPT !.self.atoms[name] = r.atom], i + 1, j, lost)

(* SetAtom: a checked property write of 32-bit items and its error check. *)
SetAtom(c, window, atom, type, len, data) ==
    EmitAll(c, << Eff("xcb_change_property_checked",
                      <<window, atom, type, 32, len>> \o data),
                  Eff("xcb_request_check", <<>>) >>)

(* ValidateXcbResult, as the argument of an AZ_Assert. *)
ValidateXcbResult(c) == Emit(c, Eff("xcb_request_check", <<>>))

(* Faulty variant: the supported-protocols list is written before           *)
(* _NET_WM_PING, which it names, is resolved.                               *)
InitializeAtomsWritingEarly(c, lost) ==
    LET c1 == ResolveRange(c, 1, 4, lost)
        a  == c1.self.atoms
        c2 == EmitAll(c1,
                << Eff("xcb_change_property",
                       << c1.self.m_xcbWindow, a["WM_PROTOCOLS"], XCB_ATOM_ATOM, 32, 2,
                          a["WM_DELETE_WINDOW"], a["_NET_WM_PING"] >>),
                   Eff("xcb_flush", <<>>) >>)
    IN  ResolveRange(c2, 5, Len(AtomNames), lost)

InitializeAtoms(c, lost) ==
    LET c1 == ResolveRange(c, 1, 5, lost)
        a  == c1.self.atoms
        c2 == EmitAll(c1,
                << Eff("xcb_change_property",
                       << c1.self.m_xcbWindow, a["WM_PROTOCOLS"], XCB_ATOM_ATOM, 32, 2,
                          a["WM_DELETE_WINDOW"], a["_NET_WM_PING"] >>),
                   Eff("xcb_flush", <<>>) >>)
    IN  ResolveRange(c2, 6, Len(AtomNames), lost)

----------------------------------------------------------------------------
(* Window creation and destruction. *)

(* A client message as xcb_send_event carries it:                           *)
(* <<propagate, destination, response_type, format, window, type, data32[0..4]>> *)
SendEvent(propagate, ev) ==
    Eff("xcb_send_event",
        << propagate, RootWindow, ev.response_type, ev.format, ev.window, ev.type >>
        \o ev.data)

ClientMessage(window, type, data) ==
    [ response_type |-> XCB_CLIENT_MESSAGE, format |-> 32, window |-> window,
      type |-> type, data |-> data, width |-> 0, height |-> 0 ]

(* Faulty variant: the resizeable flag alone gives no border. *)
BorderWidthBorderedOnly(style) ==
    IF style.bordered THEN s_DefaultXcbWindowBorderWidth ELSE 0

BorderWidth(style) ==
    IF style.bordered \/ style.resizeable THEN s_DefaultXcbWindowBorderWidth ELSE 0

SetWindowTitle(c, title) ==
    LET doubleTitle == title \o <<0>> \o title \o <<0>>
    IN  ValidateXcbResult(
            Emit(c, Eff("xcb_change_property",
                        << c.self.m_xcbWindow, XCB_ATOM_WM_CLASS, XCB_ATOM_STRING, 8,
                           Len(doubleTitle) >> \o doubleTitle)))

ProcessId == 4242

InitWindow(c, title, geometry, style, lost) ==
    LET gc  == c.xid
        c1  == Emit([GenerateId(c) EXCEPT !.self.m_xcbGraphicContext = gc],
                    Eff("xcb_create_gc", <<gc, RootWindow>>))
        wid == c1.xid
        c2  == [GenerateId(c1) EXCEPT !.self.m_xcbWindow = wid]
        c3  == ValidateXcbResult(
                 Emit(c2, Eff("xcb_create_window_checked",
                              << wid, RootWindow, Int16(geometry.m_posX),
                                 Int16(geometry.m_posY), Int16(geometry.m_width),
                                 Int16(geometry.m_height), BorderWidth(style) >>)))
        c4  == SetWindowTitle(c3, title)
        c5  == [c4 EXCEPT !.self.m_posX = geometry.m_posX,
                          !.self.m_posY = geometry.m_posY,
                          !.self.m_width = geometry.m_width,
                          !.self.m_height = geometry.m_height]
        c6  == InitializeAtoms(c5, lost)
        c7  == ValidateXcbResult(
                 Emit(c6, SendEvent(1,
                        ClientMessage(wid, c6.self.atoms["_NET_REQUEST_FRAME_EXTENTS"],
                                      <<0, 0, 0, 0, 0>>))))
    IN  EmitAll(c7,
            << Eff("xcb_change_property",
                   <<wid, c7.self.atoms["_NET_WM_PID"], XCB_ATOM_CARDINAL, 32, 1, ProcessId>>),
               Eff("xcb_flush", <<>>) >>)

(* ~XcbNativeWindow *)
Destructor(c) ==
    IF c.self.m_xcbWindow # XCB_NONE
    THEN Emit(c, Eff("xcb_destroy_window", <<c.self.m_xcbWindow>>))
    ELSE c

----------------------------------------------------------------------------
(* Notifications and geometry. *)

(* Faulty variant: no comparison with the stored size. *)
WindowSizeChangedUncompared(c, width, height) ==
    LET c1 == [c EXCEPT !.self.m_width = width, !.self.m_height = height]
    IN  IF c1.self.m_activated
        THEN LET c2 == Emit(c1, Eff("OnWindowResized", <<width, height>>))
             IN  IF ~c2.self.m_enableCustomizedResolution
                 THEN Emit(c2, Eff("OnResolutionChanged", <<width, height>>))
                 ELSE c2
        ELSE c1

(* Faulty variant: the notifications do not depend on m_activated. *)
WindowSizeChangedUngated(c, width, height) ==
    IF c.self.m_width # width \/ c.self.m_height # height
    THEN LET c1 == [c EXCEPT !.self.m_width = width, !.self.m_height = height]
             c2 == Emit(c1, Eff("OnWindowResized", <<width, height>>))
         IN  IF ~c2.self.m_enableCustomizedResolution
             THEN Emit(c2, Eff("OnResolutionChanged", <<width, height>>))
             ELSE c2
    ELSE c

(* Faulty variant: the override flag suppresses both notifications. *)
WindowSizeChangedOverrideSilent(c, width, height) ==
    IF c.self.m_width # width \/ c.self.m_height # height
    THEN LET c1 == [c EXCEPT !.self.m_width = width, !.self.m_height = height]
         IN  IF c1.self.m_activated /\ ~c1.self.m_enableCustomizedResolution
             THEN EmitAll(c1, << Eff("OnWindowResized", <<width, height>>),
                                 Eff("OnResolutionChanged", <<width, height>>) >>)
             ELSE c1
    ELSE c

WindowSizeChanged(c, width, height) ==
    IF c.self.m_width # width \/ c.self.m_height # height
    THEN LET c1 == [c EXCEPT !.self.m_width = width, !.self.m_height = height]
         IN  IF c1.self.m_activated
             THEN LET c2 == Emit(c1, Eff("OnWindowResized", <<width, height>>))
                  IN  IF ~c2.self.m_enableCustomizedResolution
                      THEN Emit(c2, Eff("OnResolutionChanged", <<width, height>>))
                      ELSE c2
             ELSE c1
    ELSE c

(* Faulty variant: the size is published before the window is mapped again. *)
ResizeClientAreaNotifyingFirst(c, width, height) ==
    LET w  == c.self.m_xcbWindow
        c1 == IF c.self.m_activated THEN Emit(c, Eff("xcb_unmap_window", <<w>>)) ELSE c
        c2 == WindowSizeChanged(Emit(c1, Eff("xcb_configure_window", <<w, width, height>>)),
                                width, height)
    IN  IF c2.self.m_activated
        THEN EmitAll(c2, <<Eff("xcb_map_window", <<w>>), Eff("xcb_flush", <<>>)>>)
        ELSE c2

ResizeClientArea(c, width, height) ==
    LET w  == c.self.m_xcbWindow
        c1 == IF c.self.m_activated THEN Emit(c, Eff("xcb_unmap_window", <<w>>)) ELSE c
        c2 == Emit(c1, Eff("xcb_configure_window", <<w, width, height>>))
        c3 == IF c2.self.m_activated
              THEN EmitAll(c2, <<Eff("xcb_map_window", <<w>>), Eff("xcb_flush", <<>>)>>)
              ELSE c2
    IN  WindowSizeChanged(c3, width, height)

----------------------------------------------------------------------------
(* Activation. *)

(* Faulty variant: no test of m_activated. *)
DeactivateUnguarded(c) ==
    LET c1 == EmitAll([c EXCEPT !.self.m_activated = FALSE],
                  << Eff("OnWindowClosed", <<c.self.m_xcbWindow>>),
                     Eff("xcb_unmap_window", <<c.self.m_xcbWindow>>),
                     Eff("xcb_flush", <<>>) >>)
    IN  Emit([c1 EXCEPT !.self.busConnected = FALSE], Eff("BusDisconnect", <<>>))

(* Faulty variant: the handler is disconnected only when the window was     *)
(* activated.                                                               *)
DeactivateDisconnectingInside(c) ==
    IF c.self.m_activated
    THEN EmitAll([c EXCEPT !.self.m_activated = FALSE, !.self.busConnected = FALSE],
             << Eff("OnWindowClosed", <<c.self.m_xcbWindow>>),
                Eff("xcb_unmap_window", <<c.self.m_xcbWindow>>),
                Eff("xcb_flush", <<>>),
                Eff("BusDisconnect", <<>>) >>)
    ELSE c

Deactivate(c) ==
    LET c1 == IF c.self.m_activated
              THEN EmitAll([c EXCEPT !.self.m_activated = FALSE],
                       << Eff("OnWindowClosed", <<c.self.m_xcbWindow>>),
                          Eff("xcb_unmap_window", <<c.self.m_xcbWindow>>),
                          Eff("xcb_flush", <<>>) >>)
              ELSE c
    IN  Emit([c1 EXCEPT !.self.busConnected = FALSE], Eff("BusDisconnect", <<>>))

----------------------------------------------------------------------------
(* The splash image. *)

(* (a - b) / 2 in 32-bit unsigned arithmetic, narrowed to the int16_t the    *)
(* request carries.  For a < b the difference wraps to 2^32 + (a - b), whose *)
(* half is 2^31 + floor((a - b) / 2); 2^31 vanishes in the low 16 bits.      *)
CenterOffset(a, b) == Int16((a - b) \div 2)

(* Faulty variant: a missing cache root or image file does not end DrawSplash. *)
DrawSplashIgnoringCacheRoot(c, env) ==
    LET c0     == Emit(c, Eff("DrawSplash", <<>>))
        done   == [ctx |-> c0, waiting |-> FALSE, locals |-> NoSplash]
        pixmap == c0.xid
        cd     == EmitAll(c0,
                      << Eff("malloc_rows", <<env.height>>),
                         Eff("malloc_data", <<env.width, env.height>>),
                         Eff("free_rows", <<env.height>>) >>)
        c1     == EmitAll(cd,
                      << Eff("xcb_create_pixmap_checked",
                             <<pixmap, c0.self.m_xcbWindow, env.width, env.height>>),
                         Eff("xcb_request_check", <<>>) >>)
        ce     == Emit(c1, Eff("free_error", <<>>))
        c2     == EmitAll(c1,
                      << Eff("xcb_image_put", <<pixmap, c1.self.m_xcbGraphicContext>>),
                         Eff("xcb_image_destroy", <<>>),
                         Eff("xcb_flush", <<>>) >>)
    IN  IF ~env.splashPath THEN done
        ELSE IF env.pixmapError THEN [done EXCEPT !.ctx = ce]
        ELSE [ ctx |-> c2, waiting |-> TRUE,
               locals |-> [ pixmap |-> pixmap, width |-> env.width,
                            height |-> env.height, discarded |-> 0, last |-> <<>> ] ]

(* Memory appears in the effects as well: malloc_rows and free_rows are the *)
(* two loops over the image's rows, malloc_data the raster buffer, which    *)
(* xcb_image_destroy frees as the image's base; free_error and free_event   *)
(* are free() of a server error and of a received event.                    *)

(* DrawSplash up to its receive loop.  env: what the settings registry, the *)
(* file system and the server answer.  waiting: the receive loop is entered. *)
(* The pixmap's id is one no resource of the connection holds; DrawSplash   *)
(* holds none when it returns, so the id it took is free again.             *)
DrawSplash(c, env) ==
    LET c0     == Emit(c, Eff("DrawSplash", <<>>))
        done   == [ctx |-> c0, waiting |-> FALSE, locals |-> NoSplash]
        pixmap == c0.xid
        cd     == EmitAll(c0,
                      << Eff("malloc_rows", <<env.height>>),
                         Eff("malloc_data", <<env.width, env.height>>),
                         Eff("free_rows", <<env.height>>) >>)
        c1     == EmitAll(cd,
                      << Eff("xcb_create_pixmap_checked",
                             <<pixmap, c0.self.m_xcbWindow, env.width, env.height>>),
                         Eff("xcb_request_check", <<>>) >>)
        ce     == Emit(c1, Eff("free_error", <<>>))
        c2     == EmitAll(c1,
                      << Eff("xcb_image_put", <<pixmap, c1.self.m_xcbGraphicContext>>),
                         Eff("xcb_image_destroy", <<>>),
                         Eff("xcb_flush", <<>>) >>)
    IN  IF ~env.splashPath THEN done
        ELSE IF ~env.cachePath THEN done
        ELSE IF ~env.fileOpens THEN done
        ELSE IF env.pixmapError THEN [done EXCEPT !.ctx = ce]
        ELSE [ ctx |-> c2, waiting |-> TRUE,
               locals |-> [ pixmap |-> pixmap, width |-> env.width,
                            height |-> env.height, discarded |-> 0, last |-> <<>> ] ]

(* The receive loop's XCB_EXPOSE case, and the end of DrawSplash. *)
DrawSplashExpose(c, sp, ev) ==
    EmitAll(c,
        << Eff("xcb_wait_for_event", <<>>),
           Eff("xcb_copy_area",
               << sp.pixmap, c.self.m_xcbWindow, c.self.m_xcbGraphicContext, 0, 0,
                  CenterOffset(c.self.m_width, sp.width),
                  CenterOffset(c.self.m_height, sp.height),
                  ev.width, ev.height >>),
           Eff("xcb_flush", <<>>),
           Eff("xcb_free_pixmap", <<sp.pixmap>>) >>)

(* The receive loop's default case, and the free(event) after the switch. *)
DrawSplashDiscard(c, sp, ev) ==
    EmitAll(c, <<Eff("xcb_wait_for_event", <<>>), Eff("free_event", <<>>)>>)

(* response_type & ~0x80 *)
ClearSentBit(rt) == IF (rt \div SentEventBit) % 2 = 1 THEN rt - SentEventBit ELSE rt

(* Faulty variant: a client message ends the wait as an exposure does. *)
DrawSplashEventAnyEnds(c, sp, ev) ==
    IF ClearSentBit(ev.response_type) \in {XCB_EXPOSE, XCB_CLIENT_MESSAGE}
    THEN [ctx |-> DrawSplashExpose(c, sp, ev), done |-> TRUE]
    ELSE [ctx |-> DrawSplashDiscard(c, sp, ev), done |-> FALSE]

(* One turn of the receive loop on the event it is given: the event is one  *)
(* xcb_wait_for_event returned.  done: the loop was left.                   *)
DrawSplashEvent(c, sp, ev) ==
    IF ClearSentBit(ev.response_type) = XCB_EXPOSE
    THEN [ctx |-> DrawSplashExpose(c, sp, ev), done |-> TRUE]
    ELSE [ctx |-> DrawSplashDiscard(c, sp, ev), done |-> FALSE]

(* Activate up to the point where DrawSplash returns or blocks. *)
Activate(c, env) ==
    LET c1 == Emit([c EXCEPT !.self.busConnected = TRUE], Eff("BusConnect", <<>>))
    IN  IF ~c1.self.m_activated
        THEN LET c2 == EmitAll(c1, << Eff("xcb_map_window", <<c1.self.m_xcbWindow>>),
                                      Eff("xcb_flush", <<>>) >>)
                 d  == DrawSplash(c2, env)
             IN  IF d.waiting
                 THEN d
                 ELSE [d EXCEPT !.ctx.self.m_activated = TRUE]
        ELSE [ctx |-> c1, waiting |-> FALSE, locals |-> NoSplash]

(* The statement after DrawSplash() in Activate. *)
ActivateEnd(c) == [c EXCEPT !.self.m_activated = TRUE]

----------------------------------------------------------------------------
(* Window-manager state. *)

ReplyFailed(reply) ==
    \/ ~reply.replied
    \/ reply.error
    \/ ~(reply.format = 32 /\ reply.type = XCB_ATOM_ATOM)

(* The loop over the reply's atoms, from index i. *)
RECURSIVE ScanStates(_, _, _)
ScanStates(c, states, i) ==
    IF i > Len(states) THEN c
    ELSE LET a == c.self.atoms
             c1 == IF states[i] = a["_NET_WM_STATE_FULLSCREEN"]
                   THEN [c EXCEPT !.self.m_fullscreenState = TRUE]
                   ELSE IF states[i] = a["_NET_WM_STATE_MAXIMIZED_HORZ"]
                   THEN [c EXCEPT !.self.m_horizontalyMaximized = TRUE]
                   ELSE IF states[i] = a["_NET_WM_STATE_MAXIMIZED_VERT"]
                   THEN [c EXCEPT !.self.m_verticallyMaximized = TRUE]
                   ELSE c
         IN  ScanStates(c1, states, i + 1)

(* Faulty variant: the flags are not cleared before the list is read. *)
GetWMStatesAccumulating(c, reply) ==
    LET c1 == Emit(c, Eff("xcb_get_property",
                          << c.self.m_xcbWindow, c.self.atoms["_NET_WM_STATE"],
                             XCB_ATOM_ATOM, 0, 1024 >>))
    IN  IF ReplyFailed(reply) THEN c1 ELSE ScanStates(c1, reply.states, 1)

GetWMStates(c, reply) ==
    LET c1 == Emit(c, Eff("xcb_get_property",
                          << c.self.m_xcbWindow, c.self.atoms["_NET_WM_STATE"],
                             XCB_ATOM_ATOM, 0, 1024 >>))
    IN  IF ReplyFailed(reply)
        THEN c1
        ELSE ScanStates([c1 EXCEPT !.self.m_fullscreenState = FALSE,
                                   !.self.m_horizontalyMaximized = FALSE,
                                   !.self.m_verticallyMaximized = FALSE],
                        reply.states, 1)

(* Faulty variant: leaving fullscreen always removes the maximize atoms. *)
RemoveMaximizedAlways(c, fullScreenState) == ~fullScreenState

(* The second client message of SetFullScreenState is due. *)
RemoveMaximized(c, fullScreenState) ==
    ~fullScreenState /\ (c.self.m_horizontalyMaximized \/ c.self.m_verticallyMaximized)

(* Faulty variant: the flag is left as GetWMStates set it. *)
SetFullScreenStateUnstored(c, fullScreenState, reply) ==
    LET c1 == GetWMStates(c, reply)
        a  == c1.self.atoms
        w  == c1.self.m_xcbWindow
        c2 == ValidateXcbResult(
                Emit(c1, SendEvent(1,
                    ClientMessage(w, a["_NET_WM_STATE"],
                        << IF fullScreenState THEN NET_WM_STATE_ADD ELSE NET_WM_STATE_REMOVE,
                           a["_NET_WM_STATE_FULLSCREEN"], 0, 1, 0 >>))))
        hint == IF c2.self.m_fullscreenState THEN 1 ELSE 0
        c3 == SetAtom(c2, w, a["_NET_WM_BYPASS_COMPOSITOR"], XCB_ATOM_CARDINAL, 32, <<hint>>)
        c4 == IF RemoveMaximized(c3, fullScreenState)
              THEN ValidateXcbResult(
                     Emit(c3, SendEvent(1,
                         ClientMessage(w, a["_NET_WM_STATE"],
                             << a["_NET_WM_STATE_MAXIMIZED_VERT"],
                                a["_NET_WM_STATE_MAXIMIZED_HORZ"], 0, 0, 0 >>))))
              ELSE c3
    IN  Emit(c4, Eff("xcb_flush", <<>>))

SetFullScreenState(c, fullScreenState, reply) ==
    LET c1 == GetWMStates(c, reply)
        a  == c1.self.atoms
        w  == c1.self.m_xcbWindow
        c2 == ValidateXcbResult(
                Emit(c1, SendEvent(1,
                    ClientMessage(w, a["_NET_WM_STATE"],
                        << IF fullScreenState THEN NET_WM_STATE_ADD ELSE NET_WM_STATE_REMOVE,
                           a["_NET_WM_STATE_FULLSCREEN"], 0, 1, 0 >>))))
        hint == IF c2.self.m_fullscreenState THEN 1 ELSE 0
        c3 == SetAtom(c2, w, a["_NET_WM_BYPASS_COMPOSITOR"], XCB_ATOM_CARDINAL, 32, <<hint>>)
        c4 == IF RemoveMaximized(c3, fullScreenState)
              THEN ValidateXcbResult(
                     Emit(c3, SendEvent(1,
                         ClientMessage(w, a["_NET_WM_STATE"],
                             << a["_NET_WM_STATE_MAXIMIZED_VERT"],
                                a["_NET_WM_STATE_MAXIMIZED_HORZ"], 0, 0, 0 >>))))
              ELSE c3
    IN  [Emit(c4, Eff("xcb_flush", <<>>)) EXCEPT !.self.m_fullscreenState = fullScreenState]

GetFullScreenState(c) == c.self.m_fullscreenState

----------------------------------------------------------------------------
(* Event dispatch. *)

(* Faulty variant: the pong keeps the window of the ping. *)
PingReplyNotReaddressed(cme) == [cme EXCEPT !.response_type = XCB_CLIENT_MESSAGE]

(* The pong: the received message, retagged and readdressed to the root. *)
PingReply(cme) ==
    [cme EXCEPT !.response_type = XCB_CLIENT_MESSAGE, !.window = RootWindow]

(* Faulty variant: the exit request is broadcast before the window is deactivated. *)
HandleClientMessageExitFirst(c, cme) ==
    IF cme.type = c.self.atoms["WM_PROTOCOLS"] /\ cme.format = s_XcbFormatDataSize
    THEN LET protocolAtom == cme.data[1]
         IN  IF protocolAtom = c.self.atoms["WM_DELETE_WINDOW"]
             THEN Deactivate(Emit(c, Eff("ExitMainLoop", <<>>)))
             ELSE IF protocolAtom = c.self.atoms["_NET_WM_PING"] /\ cme.window # RootWindow
             THEN EmitAll(c, << SendEvent(0, PingReply(cme)), Eff("xcb_flush", <<>>) >>)
             ELSE c
    ELSE c

HandleClientMessage(c, cme) ==
    IF cme.type = c.self.atoms["WM_PROTOCOLS"] /\ cme.format = s_XcbFormatDataSize
    THEN LET protocolAtom == cme.data[1]
         IN  IF protocolAtom = c.self.atoms["WM_DELETE_WINDOW"]
             THEN Emit(Deactivate(c), Eff("ExitMainLoop", <<>>))
             ELSE IF protocolAtom = c.self.atoms["_NET_WM_PING"] /\ cme.window # RootWindow
             THEN EmitAll(c, << SendEvent(0, PingReply(cme)), Eff("xcb_flush", <<>>) >>)
             ELSE c
    ELSE c

HandleXcbEvent(c, event) ==
    LET kind == event.response_type % (s_XcbResponseTypeMask + 1)
    IN  IF kind = XCB_CONFIGURE_NOTIFY
        THEN IF event.width # c.self.m_width \/ event.height # c.self.m_height
             THEN WindowSizeChanged(c, event.width, event.height)
             ELSE c
        ELSE IF kind = XCB_CLIENT_MESSAGE
        THEN HandleClientMessage(c, event)
        ELSE c

----------------------------------------------------------------------------
(* The inputs the environment supplies. *)

Titles == { <<>>, <<65>> }

Positions == { <<1, 2>> }

Geometries ==
    { [m_posX |-> p[1], m_posY |-> p[2], m_width |-> w, m_height |-> h] :
        p \in Positions, w \in 1..MaxDim, h \in 1..MaxDim }

Styles == [bordered : BOOLEAN, resizeable : BOOLEAN]

(* The intern-atom requests a failing connection leaves unanswered. *)
InternLoss == { AtomNameSet }

(* Splash inputs; what follows the first failing step is never read. *)
SplashEnvs ==
    { e \in [ splashPath : BOOLEAN, cachePath : BOOLEAN, fileOpens : BOOLEAN,
              pixmapError : BOOLEAN, width : {0, 1}, height : {0, 1} ] :
        /\ (~e.splashPath => ~e.cachePath)
        /\ (~e.cachePath => ~e.fileOpens)
        /\ (~e.fileOpens => (~e.pixmapError /\ e.width = 0 /\ e.height = 0))
        /\ (e.fileOpens => (e.width = 1 /\ e.height = 1)) }

(* Atoms a window manager puts in _NET_WM_STATE. *)
StateAtoms ==
    { ServerAtom("_NET_WM_STATE_FULLSCREEN"), ServerAtom("_NET_WM_STATE_MAXIMIZED_HORZ"),
      ServerAtom("_NET_WM_STATE_MAXIMIZED_VERT"), ServerAtom("_NET_ACTIVE_WINDOW") }

(* The lists of at most MaxStates atoms, without repetition, in the order of *)
(* the atom table.                                                          *)
StateLists ==
    { l \in UNION { [1..n -> StateAtoms] : n \in 0..MaxStates } :
        \A i \in 1..Len(l), j \in 1..Len(l) : i < j => l[i] < l[j] }

(* Replies to the _NET_WM_STATE query: none (with or without an error), the *)
(* property absent, the property in another format or of another type, and  *)
(* a list of atoms.                                                         *)
PropertyReplies ==
    { [replied |-> FALSE, error |-> e, format |-> 0, type |-> XCB_NONE, states |-> <<>>] :
        e \in BOOLEAN }
    \cup { [replied |-> TRUE, error |-> FALSE, format |-> 0, type |-> XCB_NONE,
            states |-> <<>>] }
    \cup { [replied |-> TRUE, error |-> FALSE, format |-> ft[1], type |-> ft[2],
            states |-> <<ServerAtom("_NET_WM_STATE_MAXIMIZED_HORZ")>>] :
            ft \in {<<8, XCB_ATOM_ATOM>>, <<32, XCB_ATOM_CARDINAL>>} }
    \cup { [replied |-> TRUE, error |-> FALSE, format |-> 32, type |-> XCB_ATOM_ATOM,
            states |-> l] : l \in StateLists }

Event(rt, w, h, type, format, window, data) ==
    [ response_type |-> rt, width |-> w, height |-> h, type |-> type,
      format |-> format, window |-> window, data |-> data ]

NoData == <<0, 0, 0, 0, 0>>

ConfigureEvents ==
    { Event(XCB_CONFIGURE_NOTIFY, w, h, XCB_NONE, 0, self.m_xcbWindow, NoData) :
        w \in Dims, h \in Dims }

(* Client messages carry atoms of the server, and arrive from the server or *)
(* (with the sent-event bit) from another client such as the window manager. *)
ClientEvents ==
    { Event(XCB_CLIENT_MESSAGE + bit, 0, 0, head[1], head[2], window,
            <<d0, 7, self.m_xcbWindow, 0, 0>>) :
        bit \in {0, SentEventBit},
        head \in { <<ServerAtom("WM_PROTOCOLS"), 32>>, <<ServerAtom("WM_PROTOCOLS"), 8>>,
                   <<ServerAtom("_NET_WM_STATE"), 32>> },
        window \in {RootWindow, self.m_xcbWindow},
        d0 \in { ServerAtom("WM_DELETE_WINDOW"), ServerAtom("_NET_WM_PING"),
                 ServerAtom("_NET_ACTIVE_WINDOW") } }

ExposeEvents ==
    { Event(XCB_EXPOSE + bit, 1, 1, XCB_NONE, 0, self.m_xcbWindow, NoData) :
        bit \in {0, SentEventBit} }

Events == ConfigureEvents \cup ClientEvents \cup ExposeEvents

EventKind(e) == e.response_type % (s_XcbResponseTypeMask + 1)

(* What lastOp keeps of an event: its kind and the fields its handler reads. *)
EventArgs(e) ==
    <<EventKind(e), e.width, e.height, e.type, e.format, e.window, e.data[1]>>

----------------------------------------------------------------------------
(* The lifetime counters. *)

InternedIn(fx, name) ==
    Len(SelectSeq(fx, LAMBDA e : e.k = "xcb_intern_atom" /\ e.a = <<AtomIndex(name)>>))

(* hist after an operation that issued the effects fx and left the fields s. *)
HistAfter(h, fx, s) ==
    [ h EXCEPT
        !.closed = @ + Count(fx, "OnWindowClosed"),
        !.splashRuns = @ + Count(fx, "DrawSplash"),
        !.windowIds = @ \cup ({s.m_xcbWindow} \ {XCB_NONE}) ]

(* What the operation found: the activation flag, and whether the size it  *)
(* is given differs from the stored one.                                    *)
Snapshot(width, height) ==
    [ activated |-> self.m_activated,
      resized   |-> (width # self.m_width \/ height # self.m_height) ]

Found == Snapshot(self.m_width, self.m_height)

(* An operation that ran from the current state to context c. *)
Commit(c, op, args) ==
    /\ self' = c.self
    /\ xid' = c.xid
    /\ out' = c.out
    /\ lastOp' = [op |-> op, args |-> args]
    /\ pre' = Found
    /\ hist' = HistAfter(hist, c.out, c.self)

(* The same for an operation that is given a size. *)
CommitSized(c, op, width, height) ==
    /\ self' = c.self
    /\ xid' = c.xid
    /\ out' = c.out
    /\ lastOp' = [op |-> op, args |-> <<width, height>>]
    /\ pre' = Snapshot(width, height)
    /\ hist' = HistAfter(hist, c.out, c.self)

Live == phase = "live" /\ pc = "idle"

----------------------------------------------------------------------------
(* The operations. *)

InitWindowArgs(geometry, style) ==
    << geometry.m_posX, geometry.m_posY, geometry.m_width, geometry.m_height,
       BOOL01(style.bordered), BOOL01(style.resizeable) >>

(* The one InitWindow call of the owning NativeWindow, the intern-atom       *)
(* requests named in `lost` staying unanswered.                             *)
FirstInitWindow(lost) ==
    /\ phase = "constructed"
    /\ \E title \in Titles, geometry \in Geometries, style \in Styles :
          LET c == InitWindow(Ctx, title, geometry, style, lost)
          IN  /\ self' = c.self
              /\ xid' = c.xid
              /\ out' = c.out
              /\ lastOp' = [op |-> "InitWindow", args |-> InitWindowArgs(geometry, style)]
              /\ pre' = Found
              /\ hist' = [ HistAfter(hist, c.out, c.self) EXCEPT
                             !.inits = @ + 1,
                             !.interned = [n \in AtomNameSet |-> @[n] + InternedIn(c.out, n)],
                             !.tokens = [n \in AtomNameSet |-> @[n] \cup {c.self.atoms[n]}] ]
    /\ phase' = "live"
    /\ UNCHANGED <<pc, splash>>

InitWindowCall == FirstInitWindow({})

(* The same over a connection that answers no intern-atom request. *)
InitWindowLostCall == \E lost \in InternLoss : FirstInitWindow(lost)

DestructorCall ==
    /\ phase \in {"constructed", "live"}
    /\ pc = "idle"
    /\ Commit(Destructor(Ctx), "destructor", <<>>)
    /\ phase' = "destroyed"
    /\ UNCHANGED <<pc, splash>>

ActivateArgs(env) ==
    << BOOL01(env.splashPath), BOOL01(env.cachePath), BOOL01(env.fileOpens),
       BOOL01(env.pixmapError) >>

ActivateCall ==
    /\ Live
    /\ self.m_activated \/ hist.freshActivations < MaxActivations
    /\ \E env \in SplashEnvs :
          LET r == Activate(Ctx, env)
          IN  /\ self' = r.ctx.self
              /\ xid' = r.ctx.xid
              /\ out' = r.ctx.out
              /\ lastOp' = [op |-> "Activate", args |-> ActivateArgs(env)]
              /\ pre' = Found
              /\ hist' = [ HistAfter(hist, r.ctx.out, r.ctx.self) EXCEPT
                             !.freshActivations = @ + BOOL01(~self.m_activated) ]
              /\ splash' = r.locals
              /\ pc' = IF r.waiting THEN "splashWait" ELSE "idle"
    /\ UNCHANGED phase

(* The receive loop takes an event that is no exposure event and frees it. *)
SplashDiscardEvent ==
    /\ pc = "splashWait"
    /\ splash.discarded < MaxDiscard
    /\ \E event \in Events :
          LET r == DrawSplashEvent(Ctx, splash, event)
          IN  /\ ~r.done
              /\ self' = r.ctx.self
              /\ xid' = r.ctx.xid
              /\ out' = out \o r.ctx.out
              /\ hist' = HistAfter(hist, r.ctx.out, r.ctx.self)
              /\ splash' = [splash EXCEPT !.discarded = @ + 1, !.last = EventArgs(event)]
    /\ UNCHANGED <<phase, pc, lastOp, pre>>

(* The receive loop takes the exposure event; DrawSplash and Activate end. *)
SplashExposeEvent ==
    /\ pc = "splashWait"
    /\ \E event \in Events :
          LET r == DrawSplashEvent(Ctx, splash, event)
              c == ActivateEnd(r.ctx)
          IN  /\ r.done
              /\ self' = c.self
              /\ xid' = c.xid
              /\ out' = out \o c.out
              /\ hist' = HistAfter(hist, c.out, c.self)
    /\ splash' = NoSplash
    /\ pc' = "idle"
    /\ UNCHANGED <<phase, lastOp, pre>>

DeactivateCall ==
    /\ Live
    /\ Commit(Deactivate(Ctx), "Deactivate", <<>>)
    /\ UNCHANGED <<phase, pc, splash>>

ResizeClientAreaCall ==
    /\ Live
    /\ \E width \in Dims, height \in Dims :
          CommitSized(ResizeClientArea(Ctx, width, height), "ResizeClientArea", width, height)
    /\ UNCHANGED <<phase, pc, splash>>

(* A list reply that names the atom the window holds for `name`. *)
Reports(reply, name) ==
    /\ ~ReplyFailed(reply)
    /\ \E i \in 1..Len(reply.states) : reply.states[i] = self.atoms[name]

SetFullScreenStateCall ==
    /\ Live
    /\ \E fullScreenState \in BOOLEAN, reply \in PropertyReplies :
          LET c == SetFullScreenState(Ctx, fullScreenState, reply)
          IN  /\ self' = c.self
              /\ xid' = c.xid
              /\ out' = c.out
              /\ lastOp' = [ op |-> "SetFullScreenState",
                             args |-> << BOOL01(fullScreenState),
                                         BOOL01(ReplyFailed(reply)),
                                         BOOL01(Reports(reply, "_NET_WM_STATE_FULLSCREEN")),
                                         BOOL01(Reports(reply, "_NET_WM_STATE_MAXIMIZED_HORZ")),
                                         BOOL01(Reports(reply, "_NET_WM_STATE_MAXIMIZED_VERT")) >> ]
              /\ pre' = Found
              /\ hist' = HistAfter(hist, c.out, c.self)
    /\ UNCHANGED <<phase, pc, splash>>

(* Events reach the handler through the bus Activate connects it to. *)
HandleXcbEventCall ==
    /\ Live
    /\ self.busConnected
    /\ \E event \in Events :
          LET c == HandleXcbEvent(Ctx, event)
          IN  /\ self' = c.self
              /\ xid' = c.xid
              /\ out' = c.out
              /\ lastOp' = [op |-> "HandleXcbEvent", args |-> EventArgs(event)]
              /\ pre' = IF EventKind(event) = XCB_CONFIGURE_NOTIFY
                        THEN Snapshot(event.width, event.height)
                        ELSE Found
              /\ hist' = HistAfter(hist, c.out, c.self)
    /\ UNCHANGED <<phase, pc, splash>>

(* The base class's setter of the custom-resolution flag. *)
SetEnableCustomizedResolution(c, enable) ==
    [c EXCEPT !.self.m_enableCustomizedResolution = enable]

SetEnableCustomizedResolutionCall ==
    /\ Live
    /\ \E enable \in BOOLEAN :
          Commit(SetEnableCustomizedResolution(Ctx, enable),
                 "SetEnableCustomizedResolution", <<BOOL01(enable)>>)
    /\ UNCHANGED <<phase, pc, splash>>

Next ==
    \/ InitWindowCall
    \/ DestructorCall
    \/ ActivateCall
    \/ SplashDiscardEvent
    \/ SplashExposeEvent
    \/ DeactivateCall
    \/ ResizeClientAreaCall
    \/ SetFullScreenStateCall
    \/ HandleXcbEventCall
    \/ SetEnableCustomizedResolutionCall

Spec == Init /\ [][Next]_vars

----------------------------------------------------------------------------
(* InitWindow called again on a window that exists: nothing in it checks    *)
(* that m_xcbWindow is still XCB_NONE.                                      *)

ReInitWindowCall ==
    /\ Live
    /\ hist.inits < MaxInits
    /\ \E title \in Titles, geometry \in Geometries, style \in Styles :
          LET c == InitWindow(Ctx, title, geometry, style, {})
          IN  /\ self' = c.self
              /\ xid' = c.xid
              /\ out' = c.out
              /\ lastOp' = [op |-> "InitWindow", args |-> InitWindowArgs(geometry, style)]
              /\ pre' = Found
              /\ hist' = [ HistAfter(hist, c.out, c.self) EXCEPT
                             !.inits = @ + 1,
                             !.interned = [n \in AtomNameSet |-> @[n] + InternedIn(c.out, n)],
                             !.tokens = [n \in AtomNameSet |-> @[n] \cup {c.self.atoms[n]}] ]
    /\ UNCHANGED <<phase, pc, splash>>

NextReinit ==
    \/ InitWindowCall
    \/ ReInitWindowCall
    \/ ActivateCall
    \/ SplashDiscardEvent
    \/ SplashExposeEvent
    \/ DeactivateCall
    \/ ResizeClientAreaCall
    \/ DestructorCall

SpecReinit == Init /\ [][NextReinit]_vars

----------------------------------------------------------------------------
(* GetAtom called on its own, for a name InitializeAtoms resolved before.   *)

DirectNames == {"WM_PROTOCOLS", "WM_DELETE_WINDOW"}

GetAtomCall ==
    /\ Live
    /\ \E atomName \in DirectNames, replied \in BOOLEAN :
          /\ hist.getAtomCalls[atomName] < MaxGetAtomCalls
          /\ LET r == GetAtom(Ctx, atomName, replied)
             IN  /\ out' = r.ctx.out
                 /\ lastOp' = [ op |-> "GetAtom",
                                args |-> <<AtomIndex(atomName), BOOL01(replied), r.atom>> ]
                 /\ hist' = [ hist EXCEPT
                                !.getAtomCalls[atomName] = @ + 1,
                                !.interned[atomName] = @ + InternedIn(r.ctx.out, atomName),
                                !.tokens[atomName] = @ \cup {r.atom} ]
    /\ pre' = Found
    /\ UNCHANGED <<self, xid, phase, pc, splash>>

NextGetAtom == InitWindowCall \/ InitWindowLostCall \/ GetAtomCall \/ DestructorCall

SpecGetAtom == Init /\ [][NextGetAtom]_vars

(* The same window over a connection that may have failed before InitWindow. *)
NextLost == Next \/ InitWindowLostCall

SpecLost == Init /\ [][NextLost]_vars

----------------------------------------------------------------------------
(* What the properties below read off lastOp and out. *)

InOut(e) == \E i \in 1..Len(out) : out[i] = e

IsEventOp == lastOp.op = "HandleXcbEvent"

(* lastOp.args of an event: <<kind, width, height, type, format, window, data32[0]>> *)
IsProtocolMessage(args, name) ==
    /\ args[1] = XCB_CLIENT_MESSAGE
    /\ args[4] = self.atoms["WM_PROTOCOLS"]
    /\ args[5] = 32
    /\ args[7] = self.atoms[name]

HandledDelete == IsEventOp /\ IsProtocolMessage(lastOp.args, "WM_DELETE_WINDOW")

HandledPing == IsEventOp /\ IsProtocolMessage(lastOp.args, "_NET_WM_PING")

HandledConfigure == IsEventOp /\ lastOp.args[1] = XCB_CONFIGURE_NOTIFY

(* The operation was given a size: ResizeClientArea, or a configure-notify. *)
SizedOp == lastOp.op = "ResizeClientArea" \/ HandledConfigure

GivenWidth == IF lastOp.op = "ResizeClientArea" THEN lastOp.args[1] ELSE lastOp.args[2]

GivenHeight == IF lastOp.op = "ResizeClientArea" THEN lastOp.args[2] ELSE lastOp.args[3]

ConfigureNotify(w, h) ==
    Event(XCB_CONFIGURE_NOTIFY, w, h, XCB_NONE, 0, self.m_xcbWindow, NoData)

----------------------------------------------------------------------------
(* C1: whenever HandleXcbEvent has handled a WM_PROTOCOLS client message of *)
(* format 32 whose first data word is WM_DELETE_WINDOW, the notifications   *)
(* of that call are exactly one OnWindowClosed followed by exactly one      *)
(* ExitMainLoop broadcast, whatever state the window was in.                *)
C1_DeleteClosesThenExits ==
    HandledDelete => Kinds(Notifications(out)) = <<"OnWindowClosed", "ExitMainLoop">>

C1_Witness ==
    /\ HandledDelete
    /\ Kinds(Notifications(out)) = <<"OnWindowClosed", "ExitMainLoop">>
    /\ ~self.m_activated

(* C2: WindowSizeChanged with the stored width and height returns the       *)
(* context it was given; and a ResizeClientArea or a configure-notify that  *)
(* carries the stored size publishes no notification and leaves every field *)
(* of the window as it was.                                                 *)
C2_SameSizeIsSilent ==
    /\ [](Live => WindowSizeChanged(Ctx, self.m_width, self.m_height) = Ctx)
    /\ [][ (SizedOp' /\ ~pre'.resized) => (self' = self /\ Notifications(out') = <<>>) ]_vars

C2_Witness ==
    /\ lastOp.op = "ResizeClientArea"
    /\ ~pre.resized
    /\ pre.activated
    /\ Count(out, "xcb_configure_window") = 1
    /\ Notifications(out) = <<>>

(* C3: a sized operation that found the window deactivated and was given a  *)
(* size other than the stored one has stored the given size and published   *)
(* neither OnWindowResized nor OnResolutionChanged; and in every            *)
(* deactivated state WindowSizeChanged and the configure-notify handler do  *)
(* so for every other size.                                                 *)
C3_DeactivatedResizeIsStoredSilently ==
    /\ (SizedOp /\ ~pre.activated /\ pre.resized) =>
          /\ self.m_width = GivenWidth
          /\ self.m_height = GivenHeight
          /\ Count(out, "OnWindowResized") = 0
          /\ Count(out, "OnResolutionChanged") = 0
    /\ (Live /\ ~self.m_activated) =>
          \A w \in Dims, h \in Dims :
             (w # self.m_width \/ h # self.m_height) =>
                \A c \in { WindowSizeChanged(Ctx, w, h),
                           HandleXcbEvent(Ctx, ConfigureNotify(w, h)) } :
                   /\ c.self = [self EXCEPT !.m_width = w, !.m_height = h]
                   /\ c.out = <<>>

C3_Witness ==
    /\ lastOp.op = "ResizeClientArea"
    /\ ~pre.activated
    /\ pre.resized
    /\ self.m_width = lastOp.args[1]
    /\ self.m_height = lastOp.args[2]
    /\ out = <<Eff("xcb_configure_window", <<self.m_xcbWindow, self.m_width, self.m_height>>)>>

(* C4: a Deactivate that found the window deactivated publishes no          *)
(* OnWindowClosed, issues no unmap and no flush and leaves every field as   *)
(* it was; and the OnWindowClosed notifications published so far never      *)
(* outnumber the Activate calls that found the window deactivated.          *)
C4_DeactivateTwiceIsNoOp ==
    /\ [][ (lastOp'.op = "Deactivate" /\ ~pre'.activated) =>
              /\ self' = self
              /\ Count(out', "OnWindowClosed") = 0
              /\ Count(out', "xcb_unmap_window") = 0
              /\ Count(out', "xcb_flush") = 0 ]_vars
    /\ [](hist.closed <= hist.freshActivations)

C4_Witness ==
    /\ lastOp.op = "Deactivate"
    /\ ~pre.activated
    /\ hist.closed = 1
    /\ hist.freshActivations = 1
    /\ Count(out, "OnWindowClosed") = 0

(* The pong for the ping the window holds the atoms of: the received        *)
(* message (type, format, the five data words) as a client message whose    *)
(* window is the root, sent to the root without propagation.                *)
ExpectedPong ==
    Eff("xcb_send_event",
        << 0, RootWindow, XCB_CLIENT_MESSAGE, 32, RootWindow, self.atoms["WM_PROTOCOLS"],
           self.atoms["_NET_WM_PING"], 7, self.m_xcbWindow, 0, 0 >>)

(* C5: a handled _NET_WM_PING message (WM_PROTOCOLS, format 32) whose       *)
(* window is not the root is answered by exactly one client message to the  *)
(* root, the received message with its window rewritten to the root, and a  *)
(* flush, and by nothing else; one whose window is the root is answered by  *)
(* nothing; and in both cases no field of the window changes.               *)
C5_PingIsEchoedToRoot ==
    /\ [](HandledPing =>
            out = IF lastOp.args[6] # RootWindow
                  THEN <<ExpectedPong, Eff("xcb_flush", <<>>)>>
                  ELSE <<>>)
    /\ [][ HandledPing' => self' = self ]_vars

C5_Witness ==
    /\ HandledPing
    /\ lastOp.args[6] # RootWindow
    /\ out = <<ExpectedPong, Eff("xcb_flush", <<>>)>>
    /\ self.m_activated

(* The client message that removes both maximize atoms. *)
RemovalMessage ==
    SendEvent(1, ClientMessage(self.m_xcbWindow, self.atoms["_NET_WM_STATE"],
                   << self.atoms["_NET_WM_STATE_MAXIMIZED_VERT"],
                      self.atoms["_NET_WM_STATE_MAXIMIZED_HORZ"], 0, 0, 0 >>))

(* lastOp.args of SetFullScreenState:                                       *)
(* <<target, query failed, reply names fullscreen, ... horz, ... vert>>     *)
SetFullScreen(target) == lastOp.op = "SetFullScreenState" /\ lastOp.args[1] = BOOL01(target)

(* C6: the maximize-removal message is among the effects of an operation    *)
(* only if that operation is SetFullScreenState(false) and a maximize flag  *)
(* is set; and a maximize flag turns true only in a SetFullScreenState      *)
(* whose _NET_WM_STATE query succeeded and named that flag's atom.          *)
C6_MaximizeRemovalOnlyWhenReported ==
    /\ [](InOut(RemovalMessage) =>
            /\ SetFullScreen(FALSE)
            /\ (self.m_horizontalyMaximized \/ self.m_verticallyMaximized))
    /\ [][ (self'.m_horizontalyMaximized /\ ~self.m_horizontalyMaximized) =>
              (lastOp'.op = "SetFullScreenState" /\ lastOp'.args[2] = 0
               /\ lastOp'.args[4] = 1) ]_vars
    /\ [][ (self'.m_verticallyMaximized /\ ~self.m_verticallyMaximized) =>
              (lastOp'.op = "SetFullScreenState" /\ lastOp'.args[2] = 0
               /\ lastOp'.args[5] = 1) ]_vars

(* The removal is sent on the strength of an earlier query: this one failed. *)
C6_Witness ==
    /\ SetFullScreen(FALSE)
    /\ lastOp.args[2] = 1
    /\ InOut(RemovalMessage)
    /\ self.m_verticallyMaximized
    /\ ~self.m_horizontalyMaximized

(* C7: DrawSplash runs at most once in a window's lifetime, and an Activate *)
(* that found the window activated neither maps it nor runs DrawSplash.     *)
C7_SplashRunsOnce ==
    /\ hist.splashRuns <= 1
    /\ (lastOp.op = "Activate" /\ pre.activated) =>
          (Count(out, "xcb_map_window") = 0 /\ Count(out, "DrawSplash") = 0)

SplashRequests ==
    {"xcb_create_pixmap_checked", "xcb_image_put", "xcb_copy_area", "xcb_free_pixmap"}

(* lastOp.args of Activate: <<splash path set, cache root set, file opens, pixmap error>> *)
SplashUnavailable == lastOp.args[1] = 0 \/ lastOp.args[2] = 0 \/ lastOp.args[3] = 0

(* C8: an Activate that found the window deactivated and whose splash path  *)
(* or cache root is not set, or whose image file does not open, has mapped  *)
(* the window, issued no splash request, is not waiting for an event and    *)
(* has set m_activated; one whose pixmap creation failed is not waiting     *)
(* either, and has set m_activated.                                         *)
C8_SplashFailureDoesNotBlockActivation ==
    (lastOp.op = "Activate" /\ ~pre.activated) =>
        /\ SplashUnavailable =>
              /\ Kinds(out) = <<"BusConnect", "xcb_map_window", "xcb_flush", "DrawSplash">>
              /\ \A i \in 1..Len(out) : out[i].k \notin SplashRequests
              /\ pc = "idle"
              /\ self.m_activated
        /\ (~SplashUnavailable /\ lastOp.args[4] = 1) =>
              /\ Count(out, "xcb_map_window") = 1
              /\ Count(out, "xcb_image_put") = 0
              /\ pc = "idle"
              /\ self.m_activated

C8_Witness ==
    /\ lastOp.op = "Activate"
    /\ ~pre.activated
    /\ lastOp.args = <<1, 0, 0, 0>>
    /\ Count(out, "xcb_map_window") = 1
    /\ self.m_activated
    /\ pc = "idle"

(* C9: the window id is XCB_NONE or one value for the object's lifetime: no *)
(* operation assigns a second id, and the destructor destroys that id only. *)
C9_WindowIdAssignedOnce ==
    /\ Cardinality(hist.windowIds) <= 1
    /\ (self.m_xcbWindow # XCB_NONE => hist.windowIds = {self.m_xcbWindow})
    /\ (lastOp.op = "destructor" =>
          \A i \in 1..Len(out) : out[i].a = <<self.m_xcbWindow>>)

(* C10 as stated: a name is interned at most once however often it is       *)
(* resolved, and all its resolutions yield one token.                       *)
C10_ResolvedOnceOverall ==
    \A n \in AtomNameSet :
        /\ hist.interned[n] <= 1
        /\ Cardinality(hist.tokens[n]) <= 1

(* C10, amended: GetAtom keeps no cache.  Every resolution of a name issues *)
(* one intern-atom request (a name resolved twice is interned twice); the   *)
(* answered resolutions of a name all yield the server's one token for it,  *)
(* an unanswered one yields XCB_NONE; and one InitWindow resolves each of   *)
(* the window's atom names exactly once.                                    *)
C10_OneRequestPerResolution ==
    /\ \A n \in AtomNameSet :
          /\ hist.interned[n] = hist.inits + hist.getAtomCalls[n]
          /\ hist.tokens[n] \subseteq {XCB_NONE, ServerAtom(n)}
    /\ lastOp.op = "GetAtom" =>
          /\ out = <<Eff("xcb_intern_atom", <<lastOp.args[1]>>)>>
          /\ lastOp.args[3] = IF lastOp.args[2] = 1
                              THEN LastPredefinedAtom + lastOp.args[1]
                              ELSE XCB_NONE
    /\ lastOp.op = "InitWindow" =>
          /\ Count(out, "xcb_intern_atom") = Len(AtomNames)
          /\ \A n \in AtomNameSet : InternedIn(out, n) = 1

C10_Witness ==
    /\ lastOp.op = "GetAtom"
    /\ lastOp.args = <<AtomIndex("WM_PROTOCOLS"), 1, ServerAtom("WM_PROTOCOLS")>>
    /\ hist.interned["WM_PROTOCOLS"] = 3
    /\ hist.tokens["WM_PROTOCOLS"] = {XCB_NONE, ServerAtom("WM_PROTOCOLS")}

----------------------------------------------------------------------------
(* Atoms in requests. *)

InternRequest(i) == Eff("xcb_intern_atom", <<i>>)

(* The atoms a request carries: a property's name and, in a list of atoms,  *)
(* its items; a property query's name; a client message's type and those of *)
(* its data words that are tokens of interned atoms.                        *)
AtomArgs(e) ==
    IF e.k \in {"xcb_change_property", "xcb_change_property_checked"}
    THEN {e.a[2]} \cup (IF e.a[3] = XCB_ATOM_ATOM
                        THEN {e.a[i] : i \in 6..Len(e.a)} ELSE {})
    ELSE IF e.k = "xcb_get_property" THEN {e.a[2]}
    ELSE IF e.k = "xcb_send_event"
    THEN {e.a[6]} \cup {e.a[i] : i \in {j \in 7..Len(e.a) : e.a[j] > LastPredefinedAtom}}
    ELSE {}

(* Requests i of fx that carry an atom the server interned on request. *)
AtomUses(fx) ==
    {i \in 1..Len(fx) : \E v \in AtomArgs(fx[i]) : v > LastPredefinedAtom}

(* C11 as stated: in InitWindow all intern-atom requests come before the    *)
(* first request that carries an interned atom.                             *)
C11_AllResolvedBeforeFirstUse ==
    lastOp.op = "InitWindow" =>
        \A i \in AtomUses(out), j \in 1..Len(out) :
            out[j].k = "xcb_intern_atom" => j < i

(* C11, amended: over a connection that answers, every atom a request of    *)
(* InitWindow carries is a predefined atom or the token of a name whose     *)
(* intern-atom request comes earlier in the same call (never XCB_NONE); the *)
(* names are resolved in two batches with the supported-protocols write     *)
(* between them; and every later operation issues no intern-atom request    *)
(* and carries only atoms the window holds.                                 *)
C11_EachAtomResolvedBeforeItsUse ==
    /\ lastOp.op = "InitWindow" =>
          /\ \A i \in 1..Len(out) : \A v \in AtomArgs(out[i]) :
                /\ v # XCB_NONE
                /\ v > LastPredefinedAtom =>
                      \E j \in 1..(i - 1) : out[j] = InternRequest(v - LastPredefinedAtom)
          /\ \E i \in AtomUses(out) :
                /\ out[i].a[2] = self.atoms["WM_PROTOCOLS"]
                /\ Len(SelectSeq(SubSeq(out, 1, i), LAMBDA e : e.k = "xcb_intern_atom")) = 5
    /\ lastOp.op \notin {"InitWindow", "constructor"} =>
          /\ Count(out, "xcb_intern_atom") = 0
          /\ \A i \in 1..Len(out) : \A v \in AtomArgs(out[i]) :
                v > LastPredefinedAtom =>
                    \E n \in AtomNameSet : self.atoms[n] = v /\ hist.interned[n] = 1

C11_Witness ==
    /\ lastOp.op = "SetFullScreenState"
    /\ Count(out, "xcb_send_event") = 2
    /\ Cardinality(AtomUses(out)) = 4
    /\ Count(out, "xcb_intern_atom") = 0
    /\ \A n \in AtomNameSet : hist.interned[n] = 1

----------------------------------------------------------------------------
(* What DrawSplash holds. *)

(* Activate, and the DrawSplash inside it, has returned. *)
ActivateReturned == lastOp.op = "Activate" /\ pc = "idle"

(* C12: when a splash presentation has returned, the row buffers, the       *)
(* raster buffer, every received event and a pixmap that was created have   *)
(* all been released by it.                                                 *)
C12_SplashReleasesWhatItAcquired ==
    ActivateReturned =>
        /\ Count(out, "free_rows") = Count(out, "malloc_rows")
        /\ Count(out, "xcb_image_destroy") = Count(out, "malloc_data")
        /\ Count(out, "free_event") = Count(out, "xcb_wait_for_event")
        /\ Count(out, "xcb_image_put") = 1 => Count(out, "xcb_free_pixmap") = 1

----------------------------------------------------------------------------
(* Window creation. *)

(* lastOp.args of InitWindow: <<x, y, width, height, bordered, resizeable>> *)
CreateWindowRequests == SelectSeq(out, LAMBDA e : e.k = "xcb_create_window_checked")

(* C13: after InitWindow the stored x, y, width and height are the          *)
(* requested ones, and the one window-creation request it issued carries    *)
(* border width 0 when neither style flag is set and                        *)
(* s_DefaultXcbWindowBorderWidth when the bordered or the resizeable flag is. *)
C13_InitWindowStoresGeometryAndBorder ==
    lastOp.op = "InitWindow" =>
        /\ self.m_posX = lastOp.args[1]
        /\ self.m_posY = lastOp.args[2]
        /\ self.m_width = lastOp.args[3]
        /\ self.m_height = lastOp.args[4]
        /\ Len(CreateWindowRequests) = 1
        /\ CreateWindowRequests[1].a[7] =
              IF lastOp.args[5] = 0 /\ lastOp.args[6] = 0
              THEN 0 ELSE s_DefaultXcbWindowBorderWidth

C13_Witness ==
    /\ lastOp.op = "InitWindow"
    /\ lastOp.args[5] = 0
    /\ lastOp.args[6] = 1
    /\ Len(CreateWindowRequests) = 1
    /\ CreateWindowRequests[1].a[7] = s_DefaultXcbWindowBorderWidth
    /\ <<self.m_posX, self.m_posY, self.m_width, self.m_height>> = SubSeq(lastOp.args, 1, 4)

(* C14: once the window is created its stored width and height are both    *)
(* greater than 0.                                                          *)
C14_StoredSizeIsPositive ==
    phase = "live" => (self.m_width > 0 /\ self.m_height > 0)

(* The requests of the window-creation path that the server can answer     *)
(* with an error.                                                           *)
CreationRequests ==
    {"xcb_create_gc", "xcb_create_window_checked", "xcb_change_property", "xcb_send_event"}

(* C15: every request InitWindow issued (graphics context, window, title,   *)
(* supported protocols, frame extents, process id) is followed at once by   *)
(* the error check of ValidateXcbResult.                                    *)
C15_CreationRequestsAreChecked ==
    lastOp.op = "InitWindow" =>
        \A i \in 1..Len(out) :
            out[i].k \in CreationRequests =>
                (i < Len(out) /\ out[i + 1].k = "xcb_request_check")

----------------------------------------------------------------------------
(* Fullscreen. *)

(* C16: after SetFullScreenState(target) the fullscreen flag, which is what *)
(* GetFullScreenState returns, is target, whatever the _NET_WM_STATE query  *)
(* inside it answered and whether it failed.                                *)
C16_FullScreenFlagIsTarget ==
    lastOp.op = "SetFullScreenState" =>
        /\ self.m_fullscreenState = (lastOp.args[1] = 1)
        /\ GetFullScreenState(Ctx) = (lastOp.args[1] = 1)

(* The query named the fullscreen atom and the target was false. *)
C16_Witness ==
    /\ SetFullScreen(FALSE)
    /\ lastOp.args[2] = 0
    /\ lastOp.args[3] = 1
    /\ ~GetFullScreenState(Ctx)

(* The atom the window holds for `name` is among the reply's atoms. *)
Lists(reply, name) == \E i \in 1..Len(reply.states) : reply.states[i] = self.atoms[name]

(* No reply, a server error, or a property that is no list of 32-bit atoms. *)
QueryFails(reply) ==
    ~reply.replied \/ reply.error \/ reply.format # 32 \/ reply.type # XCB_ATOM_ATOM

(* C17: in every state of a created window, GetWMStates given a failing     *)
(* reply leaves every field as it was, and given a list of atoms leaves     *)
(* each of the three flags true exactly when its atom is in the list and    *)
(* every other field as it was; and after a SetFullScreenState whose query  *)
(* succeeded the two maximize flags are what the reply listed.              *)
C17_FlagsFollowTheQuery ==
    /\ Live =>
          \A reply \in PropertyReplies :
             LET c == GetWMStates(Ctx, reply)
             IN  IF QueryFails(reply)
                 THEN c.self = self
                 ELSE c.self =
                        [ self EXCEPT
                            !.m_fullscreenState = Lists(reply, "_NET_WM_STATE_FULLSCREEN"),
                            !.m_horizontalyMaximized = Lists(reply, "_NET_WM_STATE_MAXIMIZED_HORZ"),
                            !.m_verticallyMaximized = Lists(reply, "_NET_WM_STATE_MAXIMIZED_VERT") ]
    /\ (lastOp.op = "SetFullScreenState" /\ lastOp.args[2] = 0) =>
          /\ self.m_horizontalyMaximized = (lastOp.args[4] = 1)
          /\ self.m_verticallyMaximized = (lastOp.args[5] = 1)

(* The query listed the vertical atom alone; a failing one would keep it. *)
C17_Witness ==
    /\ lastOp.op = "SetFullScreenState"
    /\ lastOp.args[2] = 0
    /\ lastOp.args[4] = 0
    /\ lastOp.args[5] = 1
    /\ ~self.m_horizontalyMaximized
    /\ self.m_verticallyMaximized
    /\ \E reply \in PropertyReplies :
          /\ QueryFails(reply)
          /\ GetWMStates(Ctx, reply).self.m_verticallyMaximized

(* The _NET_WM_STATE client messages among the effects, in order. *)
StateMessages ==
    SelectSeq(out, LAMBDA e : e.k = "xcb_send_event" /\ e.a[6] = self.atoms["_NET_WM_STATE"])

(* data32[i] of a client message among the effects *)
Data32(e, i) == e.a[7 + i]

MaximizeAtoms ==
    {self.atoms["_NET_WM_STATE_MAXIMIZED_VERT"], self.atoms["_NET_WM_STATE_MAXIMIZED_HORZ"]}

(* C18: the first _NET_WM_STATE message of SetFullScreenState carries       *)
(* [ADD or REMOVE as the target says, the fullscreen atom, 0, source, 0],   *)
(* and the second, when there is one, carries action REMOVE in data32[0]    *)
(* and the two maximize atoms in data32[1] and data32[2].                   *)
C18_StateMessagesFollowTheLayout ==
    lastOp.op = "SetFullScreenState" =>
        /\ Len(StateMessages) \in {1, 2}
        /\ Data32(StateMessages[1], 0) =
              (IF lastOp.args[1] = 1 THEN NET_WM_STATE_ADD ELSE NET_WM_STATE_REMOVE)
        /\ Data32(StateMessages[1], 1) = self.atoms["_NET_WM_STATE_FULLSCREEN"]
        /\ Data32(StateMessages[1], 4) = 0
        /\ Len(StateMessages) = 2 =>
              /\ Data32(StateMessages[2], 0) = NET_WM_STATE_REMOVE
              /\ {Data32(StateMessages[2], 1), Data32(StateMessages[2], 2)} = MaximizeAtoms
              /\ Data32(StateMessages[2], 4) = 0

(* The writes of the compositor-bypass hint among the effects. *)
BypassWrites ==
    SelectSeq(out, LAMBDA e : /\ e.k = "xcb_change_property_checked"
                              /\ e.a[2] = self.atoms["_NET_WM_BYPASS_COMPOSITOR"])

(* C19: SetFullScreenState(target) writes the compositor-bypass hint once,  *)
(* with value 1 when target is true and 0 when it is false, and stores the  *)
(* fullscreen flag whatever became of the write.                            *)
C19_BypassHintFollowsTarget ==
    lastOp.op = "SetFullScreenState" =>
        /\ Len(BypassWrites) = 1
        /\ BypassWrites[1].a[6] = lastOp.args[1]
        /\ self.m_fullscreenState = (lastOp.args[1] = 1)

(* The requests and notifications of the operation, bus markers left out. *)
Issued == Kinds(SelectSeq(out, LAMBDA e : e.k \notin {"BusConnect", "BusDisconnect"}))

Prefix(seq, n) == SubSeq(seq, 1, IF n < Len(seq) THEN n ELSE Len(seq))

(* C20 as stated: the requests of ResizeClientArea are unmap (if            *)
(* activated), configure, map (if activated) and flush, in this order,      *)
(* before any notification.                                                 *)
C20_ResizeAlwaysFlushes ==
    lastOp.op = "ResizeClientArea" =>
        LET requests == IF pre.activated
                        THEN <<"xcb_unmap_window", "xcb_configure_window",
                               "xcb_map_window", "xcb_flush">>
                        ELSE <<"xcb_configure_window", "xcb_flush">>
        IN  Prefix(Issued, Len(requests)) = requests

(* C20, amended: on an activated window ResizeClientArea issues unmap,      *)
(* configure (width and height only), map, flush and then the               *)
(* notifications a changed size calls for; on a deactivated window it       *)
(* issues the configure request alone, with no flush and no notification.   *)
(* Every notification comes after a flush, and the stored width and height  *)
(* are the requested ones afterwards.                                       *)
C20_ResizeFlushesWhenActivated ==
    lastOp.op = "ResizeClientArea" =>
        /\ Issued =
              IF pre.activated
              THEN <<"xcb_unmap_window", "xcb_configure_window", "xcb_map_window", "xcb_flush">>
                   \o Kinds(Notifications(out))
              ELSE <<"xcb_configure_window">>
        /\ Kinds(Notifications(out)) =
              IF pre.activated /\ pre.resized
              THEN IF self.m_enableCustomizedResolution
                   THEN <<"OnWindowResized">>
                   ELSE <<"OnWindowResized", "OnResolutionChanged">>
              ELSE <<>>
        /\ \A i \in 1..Len(out) :
              out[i].k = "xcb_configure_window" =>
                  out[i].a = <<self.m_xcbWindow, lastOp.args[1], lastOp.args[2]>>
        /\ self.m_width = lastOp.args[1]
        /\ self.m_height = lastOp.args[2]

C20_Witness ==
    /\ lastOp.op = "ResizeClientArea"
    /\ pre.activated
    /\ pre.resized
    /\ Issued = <<"xcb_unmap_window", "xcb_configure_window", "xcb_map_window", "xcb_flush",
                  "OnWindowResized", "OnResolutionChanged">>
    /\ self.m_width = lastOp.args[1]
    /\ self.m_height = lastOp.args[2]

----------------------------------------------------------------------------
(* Size notifications. *)

(* What an activated window publishes for a new size. *)
SizeNotifications(width, height, override) ==
    <<Eff("OnWindowResized", <<width, height>>)>>
    \o (IF override THEN <<>> ELSE <<Eff("OnResolutionChanged", <<width, height>>)>>)

(* C21: in every activated state, WindowSizeChanged with a size other than  *)
(* the stored one publishes one OnWindowResized with the new size and,      *)
(* after it, one OnResolutionChanged exactly when the custom-resolution     *)
(* flag is not set, and nothing else; and a ResizeClientArea or a           *)
(* configure-notify that found the window activated and the size changed    *)
(* has published exactly these notifications.                               *)
C21_ResizeNotifications ==
    /\ (Live /\ self.m_activated) =>
          \A w \in Dims, h \in Dims :
             (w # self.m_width \/ h # self.m_height) =>
                WindowSizeChanged(Ctx, w, h).out =
                    SizeNotifications(w, h, self.m_enableCustomizedResolution)
    /\ (SizedOp /\ pre.activated /\ pre.resized) =>
          Notifications(out) =
              SizeNotifications(GivenWidth, GivenHeight, self.m_enableCustomizedResolution)

(* The override is set: the resize notification alone. *)
C21_Witness ==
    /\ HandledConfigure
    /\ pre.activated
    /\ pre.resized
    /\ self.m_enableCustomizedResolution
    /\ out = <<Eff("OnWindowResized", <<self.m_width, self.m_height>>)>>

----------------------------------------------------------------------------
(* The splash receive loop, with an exposure event eventually delivered to  *)
(* a window that waits for one.                                             *)

NextSplash ==
    \/ InitWindowCall
    \/ ActivateCall
    \/ SplashDiscardEvent
    \/ SplashExposeEvent
    \/ DeactivateCall
    \/ ResizeClientAreaCall
    \/ DestructorCall

SpecSplash == Init /\ [][NextSplash]_vars /\ WF_vars(SplashExposeEvent)

Waiting == pc = "splashWait"

(* The effects added to out by the step. *)
Added == SubSeq(out', Len(out) + 1, Len(out'))

(* C22: while Activate waits in the splash loop the window is not           *)
(* activated and has published and sent nothing, and of the events the      *)
(* loop may be given only an exposure event ends it; a turn of the loop     *)
(* that does not end it changes no field and adds no effect but the         *)
(* receipt and release of the event; the turn that ends it adds one         *)
(* copy-area request, one flush and the release of the pixmap, and sets     *)
(* m_activated; and a waiting Activate to which an exposure event is        *)
(* eventually delivered completes.                                          *)
C22_SplashLoopDiscardsUntilExposure ==
    /\ [](Waiting =>
            /\ lastOp.op = "Activate"
            /\ ~self.m_activated
            /\ Notifications(out) = <<>>
            /\ Count(out, "xcb_send_event") = 0
            /\ Count(out, "xcb_copy_area") = 0
            /\ \A event \in Events :
                  LET r == DrawSplashEvent(Ctx, splash, event)
                  IN  /\ r.done = (EventKind(event) = XCB_EXPOSE)
                      /\ ~r.done => (r.ctx.self = self /\ Kinds(r.ctx.out) =
                                        <<"xcb_wait_for_event", "free_event">>))
    /\ [][ (Waiting /\ Waiting') =>
              /\ self' = self
              /\ hist' = hist
              /\ Kinds(Added) = <<"xcb_wait_for_event", "free_event">> ]_vars
    /\ [][ (Waiting /\ ~Waiting') =>
              /\ pc' = "idle"
              /\ self' = [self EXCEPT !.m_activated = TRUE]
              /\ Kinds(Added) = <<"xcb_wait_for_event", "xcb_copy_area", "xcb_flush",
                                  "xcb_free_pixmap">> ]_vars
    /\ (Waiting ~> (pc = "idle" /\ self.m_activated))

(* A delete-window message was taken by the loop and dropped. *)
C22_Witness ==
    /\ Waiting
    /\ splash.discarded = 1
    /\ IsProtocolMessage(splash.last, "WM_DELETE_WINDOW")
    /\ ~self.m_activated
    /\ self.busConnected
    /\ Kinds(Notifications(out)) = <<>>
    /\ Count(out, "free_event") = 1

----------------------------------------------------------------------------
(* Subscription to the event stream. *)

(* No call is in progress on a window that still exists. *)
BetweenOperations == phase # "destroyed" /\ pc = "idle"

(* C23: between operations the window is connected to the event bus exactly *)
(* when m_activated is set; every Activate connects exactly once, before    *)
(* anything else, whether or not the window was activated; every            *)
(* Deactivate, called or run for a delete-window message, disconnects       *)
(* exactly once, after everything else, whether or not the window was       *)
(* activated.                                                               *)
C23_SubscribedIffActivated ==
    /\ BetweenOperations => (self.busConnected = self.m_activated)
    /\ lastOp.op = "Activate" =>
          /\ Count(out, "BusConnect") = 1
          /\ out[1].k = "BusConnect"
          /\ Count(out, "BusDisconnect") = 0
          /\ self.busConnected
    /\ lastOp.op = "Deactivate" =>
          /\ Count(out, "BusDisconnect") = 1
          /\ out[Len(out)].k = "BusDisconnect"
          /\ Count(out, "BusConnect") = 0
          /\ ~self.busConnected
    /\ HandledDelete =>
          /\ Count(out, "BusDisconnect") = 1
          /\ Count(out, "BusConnect") = 0
          /\ ~self.busConnected /\ ~self.m_activated

(* Deactivate was called on a window that was not activated. *)
C23_Witness ==
    /\ BetweenOperations
    /\ lastOp.op = "Deactivate"
    /\ ~pre.activated
    /\ Kinds(out) = <<"BusDisconnect">>
    /\ ~self.busConnected
    /\ ~self.m_activated
    /\ hist.freshActivations > 0

====
